---- MODULE Spec2Model ----
(***************************************************************************)
(* lamux: HTTP multiplexer for AWS Lambda function aliases.                *)
(*                                                                         *)
(* The module models                                                       *)
(*   - Config.ExtractAliasAndFunctionName (the name resolver), as an       *)
(*     operator over strings, checked under SpecResolve;                   *)
(*   - the per-request control flow wrapHandler -> handleProxy -> Invoke   *)
(*     with the backend Lambda client, the request context and the clock   *)
(*     as environment, checked under Spec.                                 *)
(*                                                                         *)
(* A string is a sequence of one-character strings.                        *)
(***************************************************************************)
EXTENDS Integers, Sequences, FiniteSets, TLC

\* ------------------------------------------------------------------ bounds
\* longest Host / X-Forwarded-Host value the resolver is checked on
MaxHostLen == 7
\* largest configured UpstreamTimeout, in clock ticks
MaxTimeout == 2
\* last clock tick
MaxTime == 3

\* --------------------------------------------------------------- alphabet
\* "a" stands for the class [a-zA-Z0-9]; "-", "." and ":" are themselves.
AlnumChars == {"a"}
HostChars == {"a", "-", ".", ":"}

\* the strings over cs of length 0..n
StringsUpTo(cs, n) == UNION {[1..k -> cs] : k \in 0..n}

\* ---------------------------------------------------------- string helpers
\* strings.HasSuffix
HasSuffix(s, suffix) ==
    /\ Len(s) >= Len(suffix)
    /\ SubSeq(s, Len(s) - Len(suffix) + 1, Len(s)) = suffix

\* strings.TrimSuffix
TrimSuffix(s, suffix) ==
    IF HasSuffix(s, suffix) THEN SubSeq(s, 1, Len(s) - Len(suffix)) ELSE s

\* strings.Count of a one-byte separator
Count(s, c) == Cardinality({i \in 1..Len(s) : s[i] = c})

\* strings.IndexByte, 1-based; 0 when c does not occur
IndexByte(s, c) ==
    IF \E i \in 1..Len(s) : s[i] = c
    THEN CHOOSE i \in 1..Len(s) : s[i] = c /\ \A j \in 1..(i - 1) : s[j] # c
    ELSE 0

\* strings.LastIndexByte, 1-based; 0 when c does not occur
LastIndexByte(s, c) ==
    IF \E i \in 1..Len(s) : s[i] = c
    THEN CHOOSE i \in 1..Len(s) : s[i] = c /\ \A j \in (i + 1)..Len(s) : s[j] # c
    ELSE 0

\* strings.SplitN(s, sep, 2) for a one-byte separator: the parts
SplitN2(s, sep) ==
    LET i == IndexByte(s, sep) IN
    IF i = 0 THEN <<s>>
    ELSE <<SubSeq(s, 1, i - 1), SubSeq(s, i + 1, Len(s))>>

\* net.SplitHostPort on a host without brackets: the port follows the last
\* colon, and the part before it may hold no further colon
SplitHostPort(hostport) ==
    LET i == LastIndexByte(hostport, ":") IN
    IF i = 0 THEN [ok |-> FALSE, host |-> <<>>]
    ELSE IF Count(SubSeq(hostport, 1, i - 1), ":") > 0
         THEN [ok |-> FALSE, host |-> <<>>]
         ELSE [ok |-> TRUE, host |-> SubSeq(hostport, 1, i - 1)]

\* aliasRegexp ^[a-zA-Z0-9]+$
AliasAcceptsHyphen(s) ==
    Len(s) > 0 /\ \A i \in 1..Len(s) : s[i] \in AlnumChars \cup {"-"}

aliasRegexp(s) ==
    Len(s) > 0 /\ \A i \in 1..Len(s) : s[i] \in AlnumChars

\* functionNameRegexp ^[a-zA-Z0-9-]+$
FunctionNameMayBeEmpty(s) ==
    \A i \in 1..Len(s) : s[i] \in AlnumChars \cup {"-"}

functionNameRegexp(s) ==
    Len(s) > 0 /\ \A i \in 1..Len(s) : s[i] \in AlnumChars \cup {"-"}

\* ------------------------------------------------------------------ config
Wildcard == <<"*">>

\* Config.Validate: the checks on the fields the proxy reads
ValidateAnyTimeout(c) ==
    /\ c.Port >= 0
    /\ c.FunctionName # <<>>
    /\ (c.FunctionName # Wildcard => functionNameRegexp(c.FunctionName))
    /\ c.DomainSuffix # <<>>

ValidateAnyName(c) ==
    /\ c.Port >= 0
    /\ c.FunctionName # <<>>
    /\ c.DomainSuffix # <<>>
    /\ c.UpstreamTimeout > 0

Validate(c) ==
    /\ c.Port >= 0
    /\ c.FunctionName # <<>>
    /\ (c.FunctionName # Wildcard => functionNameRegexp(c.FunctionName))
    /\ c.DomainSuffix # <<>>
    /\ c.UpstreamTimeout > 0

\* ---------------------------------------------------------------- resolver
ErrInvalidDomainSuffix == "invalid domain suffix"
ErrInvalidAlias == "invalid alias"
ErrInvalidHostFormat == "invalid host name format"
ErrInvalidFunctionName == "invalid function name"

Resolved(alias, functionName) ==
    [ok |-> TRUE, alias |-> alias, functionName |-> functionName, err |-> ""]

Rejected(msg) ==
    [ok |-> FALSE, alias |-> <<>>, functionName |-> <<>>, err |-> msg]

\* the host the resolver routes on: X-Forwarded-Host when non-empty, else
\* Host, without a trailing :port
EffectiveHostFromPath(r) ==
    LET host == IF r.URL # <<"/">> THEN SubSeq(r.URL, 2, Len(r.URL))
                ELSE IF r.XForwardedHost = <<>> THEN r.Host ELSE r.XForwardedHost
        sp == SplitHostPort(host)
    IN IF sp.ok THEN sp.host ELSE host

EffectiveHostPrefersHost(r) ==
    LET host == IF r.Host = <<>> THEN r.XForwardedHost ELSE r.Host
        sp == SplitHostPort(host)
    IN IF sp.ok THEN sp.host ELSE host

EffectiveHost(r) ==
    LET host == IF r.XForwardedHost = <<>> THEN r.Host ELSE r.XForwardedHost
        sp == SplitHostPort(host)
    IN IF sp.ok THEN sp.host ELSE host

\* strings.SplitN(target, "-", 2) of the wildcard branch
SplitPadded(target) ==
    IF IndexByte(target, "-") = 0 THEN <<target, target>> ELSE SplitN2(target, "-")

SplitEveryHyphen(target) ==
    LET i == LastIndexByte(target, "-") IN
    IF i = 0 THEN <<target>>
    ELSE <<SubSeq(target, 1, i - 1), SubSeq(target, i + 1, Len(target))>>

SplitTarget(target) == SplitN2(target, "-")

\* Config.ExtractAliasAndFunctionName
ExtractWithoutSuffixCheck(c, r) ==
    LET host == EffectiveHost(r)
        target == TrimSuffix(host, <<".">> \o c.DomainSuffix)
        p == SplitTarget(target)
    IN
    IF c.FunctionName # Wildcard
    THEN IF ~aliasRegexp(target) THEN Rejected(ErrInvalidAlias)
         ELSE Resolved(target, c.FunctionName)
    ELSE IF Len(p) # 2 THEN Rejected(ErrInvalidHostFormat)
    ELSE IF ~aliasRegexp(p[1]) THEN Rejected(ErrInvalidAlias)
    ELSE IF ~functionNameRegexp(p[2]) THEN Rejected(ErrInvalidFunctionName)
    ELSE Resolved(p[1], p[2])

ExtractAliasAndFunctionName(c, r) ==
    LET host == EffectiveHost(r)
        target == TrimSuffix(host, <<".">> \o c.DomainSuffix)
        p == SplitTarget(target)
    IN
    IF ~HasSuffix(host, c.DomainSuffix) THEN Rejected(ErrInvalidDomainSuffix)
    ELSE IF c.FunctionName # Wildcard
    THEN IF ~aliasRegexp(target) THEN Rejected(ErrInvalidAlias)
         ELSE Resolved(target, c.FunctionName)
    ELSE IF Len(p) # 2 THEN Rejected(ErrInvalidHostFormat)
    ELSE IF ~aliasRegexp(p[1]) THEN Rejected(ErrInvalidAlias)
    ELSE IF ~functionNameRegexp(p[2]) THEN Rejected(ErrInvalidFunctionName)
    ELSE Resolved(p[1], p[2])

\* ------------------------------------------------------------ input spaces
\* --function-name values a user can pass, valid or not
FunctionNames == {<<>>, <<".">>, <<"a">>, Wildcard}
\* --domain-suffix values: unset, without a dot ("localdomain"), with a dot
DomainSuffixes == {<<>>, <<"a">>, <<"a", ".", "a">>}

\* --port values: a negative one and the default
Ports == {-1, 8080}

\* the configurations a user can hand to NewLamux
AllConfigs ==
    [Port : Ports, FunctionName : FunctionNames, DomainSuffix : DomainSuffixes,
     UpstreamTimeout : 0..MaxTimeout]

\* the configurations NewLamux accepts
ValidConfigs == {c \in AllConfigs : Validate(c)}

\* the request's own Host when the override header carries the routing host
OwnHosts == {<<"a", ".", "a">>, <<"-">>}

\* X-Forwarded-Host values: a routable host, one with a port, an unroutable
\* one, and every short non-empty header
MaxForwardedLen == 3

ForwardedHosts ==
    {<<"a", "a", ".", "a">>, <<"a", "-", "a", ".", "a", ":", "a">>, <<"a", ".", "-">>}
    \cup (StringsUpTo(HostChars, MaxForwardedLen) \ {<<>>})

\* http.Request as far as the resolver reads it: Host and X-Forwarded-Host
NoHeader == <<>>

\* the rest of the request (method, path, query, other headers, body), which
\* the catch-all route accepts unseen: the root path, or a path that reads
\* like a routable host
RootPath == <<"/">>
Paths == {RootPath, <<"/", "a", "a", "-", "a", ".", "a">>}

Request(host, xfh, url) == [Host |-> host, XForwardedHost |-> xfh, URL |-> url]

ResolverRequests ==
    {Request(h, NoHeader, RootPath) : h \in StringsUpTo(HostChars, MaxHostLen)}
    \cup {Request(h, x, u) : h \in OwnHosts, x \in ForwardedHosts \cup {NoHeader}, u \in Paths}

NoResult == [ok |-> FALSE, alias |-> <<>>, functionName |-> <<>>, err |-> "not called"]

\* ------------------------------------------------------------ error values
\* A Go error as the handlers read it: its text (outermost prefix first),
\* whether errors.As finds a *HandlerError in its chain, and that error's code
NoError == [set |-> FALSE, text |-> <<>>, handler |-> FALSE, code |-> 0]

\* fmt.Errorf / errors.New without a wrapped error
NewError(msg) == [set |-> TRUE, text |-> <<msg>>, handler |-> FALSE, code |-> 0]

\* newHandlerError: the outermost *HandlerError is the one errors.As returns
newHandlerError(e, code) == [e EXCEPT !.handler = TRUE, !.code = code]

\* fmt.Errorf(prefix + ": %w", e): Unwrap keeps the chain
WrapLosingChain(prefix, e) == NewError(prefix)

Wrap(prefix, e) == [e EXCEPT !.text = <<prefix>> \o e.text]

StatusBadRequest == 400
StatusNotFound == 404
StatusInternalServerError == 500
StatusBadGateway == 502
StatusGatewayTimeout == 504
StatusOK == 200

\* --------------------------------------------------------- backend results
\* what lambdaClient.Invoke returns: an error (err # "none") or an
\* InvokeOutput with StatusCode, FunctionError, ExecutedVersion and Payload
NoFault == "none"
Faults == {"notfound", "other", "ctx"}

\* a payload: a response envelope with a status code, or bytes that are none
Envelope(code) == [valid |-> TRUE, statusCode |-> code]
Malformed == [valid |-> FALSE, statusCode |-> 0]

Output(code, fe, ver, payload) ==
    [err |-> NoFault, StatusCode |-> code, FunctionError |-> fe,
     ExecutedVersion |-> ver, Payload |-> payload]

Fault(f) ==
    [err |-> f, StatusCode |-> 0, FunctionError |-> FALSE,
     ExecutedVersion |-> FALSE, Payload |-> Malformed]

NoOutput == Fault("not returned")

BackendResults ==
    {Fault(f) : f \in Faults}
    \cup {Output(200, FALSE, v, p) :
            v \in BOOLEAN, p \in {Malformed, Envelope(200), Envelope(404)}}
    \cup {Output(c, TRUE, v, Malformed) : c \in {200, 405}, v \in BOOLEAN}

\* ------------------------------------------------------------------ Invoke
\* context.WithTimeout: the deadline of the call's context
DeadlineTooEarly(start, timeout) == start + timeout - 1

Deadline(start, timeout) == start + timeout

\* ctx.Err().Error()
CtxErrText(ctxErr) ==
    IF ctxErr = "canceled" THEN "context canceled" ELSE "context deadline exceeded"

\* Invoke, lines 243-253: the backend returned an error and ctx.Err() # nil
TimeoutError(fault, ctxErr) ==
    Wrap("upstream timeout",
         CASE ctxErr = "canceled" ->
                newHandlerError(NewError(CtxErrText(ctxErr)), StatusGatewayTimeout)
           [] ctxErr = "deadline" ->
                newHandlerError(NewError(CtxErrText(ctxErr)), StatusGatewayTimeout)
           [] OTHER -> NewError(fault))

\* Invoke, lines 254-261: the backend returned an error and the context is live
FaultAlwaysBadGateway(fault) ==
    Wrap("failed to invoke", newHandlerError(NewError(fault), StatusBadGateway))

FaultNeverBadGateway(fault) ==
    Wrap("failed to invoke",
         IF fault = "notfound"
         THEN newHandlerError(NewError(fault), StatusNotFound)
         ELSE newHandlerError(NewError(fault), StatusInternalServerError))

FaultError(fault) ==
    Wrap("failed to invoke",
         IF fault = "notfound"
         THEN newHandlerError(NewError(fault), StatusNotFound)
         ELSE newHandlerError(NewError(fault), StatusBadGateway))

\* Invoke, lines 273-276: the result reports a function error
FunctionErrorResult(res) ==
    newHandlerError(NewError("function error"), StatusInternalServerError)

\* what Invoke returns for a backend result examined with the context in
\* state ctxErr: resp # nil (ok), an error, or a nil dereference at line 266
Returned(ok, e) == [ok |-> ok, err |-> e, panic |-> FALSE]
NotInvoked == [ok |-> FALSE, err |-> NoError, panic |-> FALSE]
NilDereference == [ok |-> FALSE, err |-> NoError, panic |-> TRUE]

InvokeChecksContextFirst(res, ctxErr) ==
    IF ctxErr # "none" THEN Returned(FALSE, TimeoutError(res.err, ctxErr))
    ELSE IF res.err # NoFault THEN Returned(FALSE, FaultError(res.err))
    ELSE IF ~res.ExecutedVersion THEN NilDereference
    ELSE IF res.FunctionError THEN Returned(FALSE, FunctionErrorResult(res))
    ELSE Returned(TRUE, NoError)

InvokeReturnValue(res, ctxErr) ==
    IF res.err # NoFault
    THEN IF ctxErr # "none"
         THEN Returned(FALSE, TimeoutError(res.err, ctxErr))
         ELSE Returned(FALSE, FaultError(res.err))
    ELSE IF ~res.ExecutedVersion THEN NilDereference
    ELSE IF res.FunctionError THEN Returned(FALSE, FunctionErrorResult(res))
    ELSE Returned(TRUE, NoError)

\* ----------------------------------------------------------- http.ResponseWriter
\* status: the status line sent (0: none yet); body: what was written
NoResponse == [status |-> 0, body |-> <<>>]

\* w.WriteHeader: only the first call sends a status line
WriteHeaderAlwaysOK(wr, code) ==
    IF wr.status = 0 THEN [wr EXCEPT !.status = StatusOK] ELSE wr

WriteHeader(wr, code) == IF wr.status = 0 THEN [wr EXCEPT !.status = code] ELSE wr

\* w.Write: an implicit 200 status line when none was sent
Write(wr, bytes) ==
    [WriteHeader(wr, StatusOK) EXCEPT !.body = wr.body \o bytes]

\* http.Error(w, text, code): status line, then the text as one line
HttpError(wr, text, code) == Write(WriteHeader(wr, code), text \o <<"\n">>)

\* ------------------------------------------------------------------- state
\* the requests the server can hold at once; the handlers share no mutable
\* state, and a run serves the requests in clients
Reqs == {"r1", "r2"}

\* requests the proxy is exercised with
ProxyHosts ==
    {<<"a", ".", "a">>, <<"a", "a", "-", "a", ".", "a">>,
     <<"a", "-", "-", "a", ".", "a">>, <<"a", "-", ".", "a">>, <<"a", ".", "-">>}
ProxyRequests == {Request(h, NoHeader, RootPath) : h \in ProxyHosts}
NoRequest == Request(<<>>, NoHeader, RootPath)

\* values of AWS_LAMBDA_FUNCTION_NAME: unset, or the name of a function
SelfNames == {<<>>, <<"a">>}

NoContext ==
    [canceled |-> FALSE, err |-> "none", start |-> 0, deadline |-> 0,
     canceledInFlight |-> FALSE, deadlineInFlight |-> FALSE]

NoCall == [count |-> 0, FunctionName |-> <<>>, Qualifier |-> <<>>, result |-> NoOutput]

VARIABLES
    cfg,        \* Lamux.Config, fixed by NewLamux
    clients,    \* the requests that arrive in this run
    rq,         \* resolver check: the request handed to the resolver
    rs,         \* resolver check: what the resolver returned
    selfName,   \* os.Getenv("AWS_LAMBDA_FUNCTION_NAME")
    now,        \* the clock
    pc,         \* per request: where its handler stands
    http,       \* per request: the http.Request
    target,     \* per request: what ExtractAliasAndFunctionName returned
    ctx,        \* per request: r.Context() and the context Invoke derives
    call,       \* per request: the backend call (count, input, result)
    inv,        \* per request: what Invoke returned
    err,        \* per request: the error handleProxy returned
    w,          \* per request: the http.ResponseWriter
    logs,       \* per request: the slog records emitted
    stages,     \* per request: the stages of handleProxy run so far
    lamux,      \* what NewLamux returned: nothing yet, a Lamux, or an error
    otel        \* setupOtelSDK: the trace config, shutdownFuncs and the calls made

rvars == <<rq, rs, lamux, otel>>
pvars == <<selfName, now, pc, http, target, ctx, call, inv, err, w, logs, stages>>
vars == <<cfg, clients, rq, rs, selfName, now, pc, http, target, ctx, call, inv, err, w, logs, stages, lamux, otel>>

\* tracing as Run leaves it when the trace configuration is not looked at
NoOtel == [tc |-> <<>>, state |-> "unset", shutdownFuncs |-> <<>>,
           registered |-> <<>>, setupErr |-> {}, ran |-> <<>>, returned |-> <<>>]

\* NewLamux has returned a Lamux
Started ==
    /\ lamux = "built"
    /\ otel = NoOtel

\* no request has arrived
ProxyIdle ==
    /\ now = 0
    /\ pc = [r \in Reqs |-> "idle"]
    /\ http = [r \in Reqs |-> NoRequest]
    /\ target = [r \in Reqs |-> NoResult]
    /\ ctx = [r \in Reqs |-> NoContext]
    /\ call = [r \in Reqs |-> NoCall]
    /\ inv = [r \in Reqs |-> NotInvoked]
    /\ err = [r \in Reqs |-> NoError]
    /\ w = [r \in Reqs |-> NoResponse]
    /\ logs = [r \in Reqs |-> <<>>]
    /\ stages = [r \in Reqs |-> <<>>]

\* ------------------------------------------- resolver as a pure function
InitResolve ==
    /\ cfg \in {c \in ValidConfigs : c.UpstreamTimeout = 1}
    /\ rq \in ResolverRequests
    /\ rs = NoResult
    /\ Started
    /\ clients = {}
    /\ selfName = <<>>
    /\ ProxyIdle

\* one call of Config.ExtractAliasAndFunctionName
ResolveHost ==
    /\ rs = NoResult
    /\ rs' = ExtractAliasAndFunctionName(cfg, rq)
    /\ UNCHANGED <<cfg, clients, rq, lamux, otel, pvars>>

NextResolve == ResolveHost

SpecResolve == InitResolve /\ [][NextResolve]_vars

\* ------------------------------------------------------------------ proxy
\* a slog record: its level, its message and the status attribute it carries
\* (0: none)
LogRecordAlwaysInfo(level, msg, status) == [level |-> "info", msg |-> msg, status |-> status]

LogRecord(level, msg, status) == [level |-> level, msg |-> msg, status |-> status]

\* handleProxy, lines 178-183: what a resolver error becomes
ValidationAsPlainError(msg) == NewError(msg)

ValidationError(msg) == newHandlerError(NewError(msg), StatusBadRequest)

\* handleProxy, line 185: the loop guard
RecursiveCallByAlias(self, t) == self = t.alias

RecursiveCall(self, t) == self = t.functionName

\* handleProxy, lines 200-203: where the handler goes once Invoke returned
DecodeAfterInvoke(out) == "decode"

RetryAfterInvoke(out) == IF out.err.set THEN "invoke" ELSE "decode"

AfterInvoke(out) == IF out.err.set THEN "finish" ELSE "decode"

\* handleProxy, line 178: alias and functionName are locals of the call
StoreTargetShared(tg, r, t) == [x \in DOMAIN tg |-> t]

StoreTarget(tg, r, t) == [tg EXCEPT ![r] = t]

\* the context Invoke passes to the backend: derived from the request's
NewCallContext(parent, start, timeout) ==
    [parent EXCEPT !.err = IF parent.canceled THEN "canceled" ELSE "none",
                   !.start = start,
                   !.deadline = Deadline(start, timeout)]

\* cancellation of the request's context, as the derived context sees it
DetachedCancel(c, inFlight, derived) ==
    [c EXCEPT !.canceled = TRUE,
              !.canceledInFlight = c.canceledInFlight \/ inFlight]

PropagateCancel(c, inFlight, derived) ==
    [c EXCEPT !.canceled = TRUE,
              !.err = IF derived /\ c.err = "none" THEN "canceled" ELSE c.err,
              !.canceledInFlight = c.canceledInFlight \/ inFlight]

\* the derived context's timer, seen at clock value t
ExpireAt(c, t, inFlight, derived) ==
    IF derived /\ c.err = "none" /\ t >= c.deadline
    THEN [c EXCEPT !.err = "deadline",
                   !.deadlineInFlight = c.deadlineInFlight \/ inFlight]
    ELSE c

Init ==
    /\ cfg \in {c \in ValidConfigs : c.DomainSuffix = <<"a">>}
    /\ selfName \in SelfNames
    /\ clients = {"r1"}
    /\ rq = NoRequest
    /\ rs = NoResult
    /\ Started
    /\ ProxyIdle

\* wrapHandler, lines 132-136: a request arrives and its handler starts
Serve(r, q) ==
    /\ lamux = "built"
    /\ r \in clients
    /\ pc[r] = "idle"
    /\ http' = [http EXCEPT ![r] = q]
    /\ pc' = [pc EXCEPT ![r] = "resolve"]
    /\ UNCHANGED <<cfg, clients, rvars, selfName, now, target, ctx, call, inv, err, w, logs, stages>>

\* handleProxy, lines 178-183
Resolve(r) ==
    /\ pc[r] = "resolve"
    /\ LET t == ExtractAliasAndFunctionName(cfg, http[r]) IN
       /\ target' = StoreTarget(target, r, t)
       /\ stages' = [stages EXCEPT ![r] = Append(@, "resolve")]
       /\ IF t.ok
          THEN /\ pc' = [pc EXCEPT ![r] = "guard"]
               /\ UNCHANGED <<err, logs>>
          ELSE /\ err' = [err EXCEPT ![r] = ValidationError(t.err)]
               /\ logs' = [logs EXCEPT ![r] =
                              Append(@, LogRecord("error", "handleProxy", 0))]
               /\ pc' = [pc EXCEPT ![r] = "finish"]
    /\ UNCHANGED <<cfg, clients, rvars, selfName, now, http, ctx, call, inv, w>>

\* handleProxy, lines 184-189
LoopGuard(r) ==
    /\ pc[r] = "guard"
    /\ stages' = [stages EXCEPT ![r] = Append(@, "guard")]
    /\ IF RecursiveCall(selfName, target[r])
       THEN /\ err' = [err EXCEPT ![r] = NewError("recursive call detected")]
            /\ pc' = [pc EXCEPT ![r] = "finish"]
       ELSE /\ pc' = [pc EXCEPT ![r] = "encode"]
            /\ UNCHANGED err
    /\ UNCHANGED <<cfg, clients, rvars, selfName, now, http, target, ctx, call, inv, w, logs>>

\* handleProxy, lines 191-198: ridge.ToRequestV2 and json.Marshal
Encode(r, ok) ==
    /\ pc[r] = "encode"
    /\ stages' = [stages EXCEPT ![r] = Append(@, "encode")]
    /\ IF ok
       THEN /\ pc' = [pc EXCEPT ![r] = "invoke"]
            /\ UNCHANGED err
       ELSE /\ err' = [err EXCEPT ![r] =
                          Wrap("failed to convert request", NewError("read body"))]
            /\ pc' = [pc EXCEPT ![r] = "finish"]
    /\ UNCHANGED <<cfg, clients, rvars, selfName, now, http, target, ctx, call, inv, w, logs>>

\* Invoke, lines 219-241: derive the context and call the backend
InvokeCall(r) ==
    /\ pc[r] = "invoke"
    /\ stages' = [stages EXCEPT ![r] = Append(@, "invoke")]
    /\ ctx' = [ctx EXCEPT ![r] = NewCallContext(@, now, cfg.UpstreamTimeout)]
    /\ call' = [call EXCEPT ![r] =
                   [count |-> @.count + 1,
                    FunctionName |-> target[r].functionName,
                    Qualifier |-> target[r].alias,
                    result |-> NoOutput]]
    /\ pc' = [pc EXCEPT ![r] = "inflight"]
    /\ UNCHANGED <<cfg, clients, rvars, selfName, now, http, target, inv, err, w, logs>>

\* lambdaClient.Invoke returns. A call whose context is done returns an
\* error; it returns the context's error only when the context is done.
BackendReturn(r, res) ==
    /\ pc[r] = "inflight"
    /\ ctx[r].err # "none" => res.err # NoFault
    /\ res.err = "ctx" => ctx[r].err # "none"
    /\ call' = [call EXCEPT ![r].result = res]
    /\ pc' = [pc EXCEPT ![r] = "returned"]
    /\ UNCHANGED <<cfg, clients, rvars, selfName, now, http, target, ctx, inv, err, w, logs, stages>>

\* Invoke, lines 242-277, and handleProxy, lines 200-203
InvokeReturn(r) ==
    /\ pc[r] = "returned"
    /\ LET out == InvokeReturnValue(call[r].result, ctx[r].err) IN
       /\ inv' = [inv EXCEPT ![r] = out]
       /\ err' = [err EXCEPT ![r] = out.err]
       /\ pc' = [pc EXCEPT ![r] = IF out.panic THEN "panic" ELSE AfterInvoke(out)]
    /\ UNCHANGED <<cfg, clients, rvars, selfName, now, http, target, ctx, call, w, logs, stages>>

\* handleProxy, lines 205-208: json.Unmarshal of the payload
Decode(r) ==
    /\ pc[r] = "decode"
    /\ stages' = [stages EXCEPT ![r] = Append(@, "decode")]
    /\ IF call[r].result.Payload.valid
       THEN /\ pc' = [pc EXCEPT ![r] = "write"]
            /\ UNCHANGED err
       ELSE /\ err' = [err EXCEPT ![r] =
                          Wrap("failed to unmarshal response", NewError("json"))]
            /\ pc' = [pc EXCEPT ![r] = "finish"]
    /\ UNCHANGED <<cfg, clients, rvars, selfName, now, http, target, ctx, call, inv, w, logs>>

\* handleProxy, lines 209-215: res.WriteTo(w) sends the status line and then
\* the body; the body write can fail
WriteResponse(r, ok) ==
    /\ pc[r] = "write"
    /\ stages' = [stages EXCEPT ![r] = Append(@, "write")]
    /\ LET code == call[r].result.Payload.statusCode IN
       IF ok
       THEN /\ w' = [w EXCEPT ![r] = Write(WriteHeader(@, code), <<"body">>)]
            /\ logs' = [logs EXCEPT ![r] =
                           Append(@, LogRecord("info", "handleProxy", code))]
            /\ UNCHANGED err
       ELSE /\ w' = [w EXCEPT ![r] = WriteHeader(@, code)]
            /\ err' = [err EXCEPT ![r] =
                          Wrap("failed to write response", NewError("write"))]
            /\ UNCHANGED logs
    /\ pc' = [pc EXCEPT ![r] = "finish"]
    /\ UNCHANGED <<cfg, clients, rvars, selfName, now, http, target, ctx, call, inv>>

\* wrapHandler, lines 137-153
Finish(r) ==
    /\ pc[r] = "finish"
    /\ IF err[r].set
       THEN LET code == IF err[r].handler THEN err[r].code
                        ELSE StatusInternalServerError
            IN /\ logs' = [logs EXCEPT ![r] =
                              Append(@, LogRecord("error", "request", code))]
               /\ w' = [w EXCEPT ![r] = HttpError(@, err[r].text, code)]
       ELSE /\ logs' = [logs EXCEPT ![r] =
                           Append(@, LogRecord("info", "response", StatusOK))]
            /\ UNCHANGED w
    /\ pc' = [pc EXCEPT ![r] = "done"]
    /\ UNCHANGED <<cfg, clients, rvars, selfName, now, http, target, ctx, call, inv, err, stages>>

\* the request's context is canceled: the client went away, or shutdown
CancelRequest(r) ==
    /\ pc[r] \notin {"idle", "done", "panic"}
    /\ ~ctx[r].canceled
    /\ ctx' = [ctx EXCEPT ![r] =
                  PropagateCancel(@, pc[r] = "inflight",
                                  pc[r] \in {"inflight", "returned"})]
    /\ UNCHANGED <<cfg, clients, rvars, selfName, now, pc, http, target, call, inv, err, w, logs, stages>>

\* the clock advances; the timers of the derived contexts fire
Tick ==
    /\ now < MaxTime
    /\ now' = now + 1
    /\ ctx' = [r \in Reqs |->
                  ExpireAt(ctx[r], now + 1, pc[r] = "inflight",
                           pc[r] \in {"inflight", "returned"})]
    /\ UNCHANGED <<cfg, clients, rvars, selfName, pc, http, target, call, inv, err, w, logs, stages>>

Next ==
    \/ \E r \in Reqs, q \in ProxyRequests : Serve(r, q)
    \/ \E r \in Reqs : Resolve(r)
    \/ \E r \in Reqs : LoopGuard(r)
    \/ \E r \in Reqs, ok \in BOOLEAN : Encode(r, ok)
    \/ \E r \in Reqs : InvokeCall(r)
    \/ \E r \in Reqs, res \in BackendResults : BackendReturn(r, res)
    \/ \E r \in Reqs : InvokeReturn(r)
    \/ \E r \in Reqs : Decode(r)
    \/ \E r \in Reqs, ok \in BOOLEAN : WriteResponse(r, ok)
    \/ \E r \in Reqs : Finish(r)
    \/ \E r \in Reqs : CancelRequest(r)
    \/ Tick

Spec == Init /\ [][Next]_vars

\* ------------------------------------------------------------ construction
\* NewLamux: Validate, then the AWS configuration is loaded
NewLamux(awsOk) ==
    /\ lamux = "none"
    /\ lamux' = IF ~Validate(cfg) THEN "invalid config"
                ELSE IF ~awsOk THEN "failed to load AWS config"
                ELSE "built"
    /\ UNCHANGED <<cfg, clients, rq, rs, otel, pvars>>

InitNew ==
    /\ cfg \in AllConfigs
    /\ selfName = <<>>
    /\ clients = {"r1"}
    /\ rq = NoRequest
    /\ rs = NoResult
    /\ lamux = "none"
    /\ otel = NoOtel
    /\ ProxyIdle

NextNew ==
    \/ \E awsOk \in BOOLEAN : NewLamux(awsOk)
    \/ Next

SpecNew == InitNew /\ [][NextNew]_vars

\* ------------------------------------------------------------------ tracing
\* how often the shutdown function is called
MaxShutdownCalls == 3

\* TraceConfig as far as setupOtelSDK and newTraceExporter read it
TraceProtocols == {"http/protobuf", "grpc", "udp"}
TraceConfigs ==
    [TraceStdout : BOOLEAN, TraceEndpoint : {<<>>, <<"a">>}, TraceProtocol : TraceProtocols]

\* TraceConfig.Enabled
Enabled(tc) == tc.TraceStdout \/ tc.TraceEndpoint # <<>>

\* newTraceProvider: the error it returns ("none": a provider); fault is what
\* the exporter or the resource constructor reports
TraceProviderFaults == {"none", "exporter", "resource"}
newTraceProvider(tc, fault) ==
    IF ~tc.TraceStdout /\ tc.TraceProtocol \notin {"http/protobuf", "grpc"}
    THEN "unsupported trace protocol"
    ELSE fault

\* errors.Join over the results of the cleanups run: the set of their errors
JoinErrors(results) == {results[i].fn : i \in {j \in DOMAIN results : results[j].failed}}

\* shutdown, line 55: the registered cleanups once the loop has run
KeepShutdownFuncs(funcs) == funcs

AfterShutdown(funcs) == <<>>

\* shutdown, lines 50-57: run what is registered, join the errors, forget
\* the cleanups; fails tells which cleanups return an error
RunShutdown(o, fails) ==
    LET results == [i \in DOMAIN o.shutdownFuncs |->
                       [fn |-> o.shutdownFuncs[i], failed |-> fails]]
    IN [o EXCEPT !.ran = @ \o results,
                 !.shutdownFuncs = AfterShutdown(@),
                 !.returned = Append(@, JoinErrors(results))]

\* setupOtelSDK, lines 39-78
SetupOtelSDK(fault) ==
    /\ otel.state = "unset"
    /\ LET e == newTraceProvider(otel.tc, fault) IN
       otel' = IF ~Enabled(otel.tc)
               THEN [otel EXCEPT !.state = "disabled"]
               ELSE IF e # "none"
               THEN [otel EXCEPT !.state = "failed",
                                 !.shutdownFuncs = AfterShutdown(@),
                                 !.setupErr = {e}]
               ELSE [otel EXCEPT !.state = "ready",
                                 !.shutdownFuncs = Append(@, "tracerProvider.Shutdown"),
                                 !.registered = Append(@, "tracerProvider.Shutdown")]
    /\ UNCHANGED <<cfg, clients, rq, rs, lamux, pvars>>

\* one call of the shutdown function setupOtelSDK returned
Shutdown(fails) ==
    /\ otel.state # "unset"
    /\ Len(otel.returned) < MaxShutdownCalls
    /\ otel' = IF otel.state = "disabled"
               THEN [otel EXCEPT !.returned = Append(@, {})]
               ELSE RunShutdown(otel, fails)
    /\ UNCHANGED <<cfg, clients, rq, rs, lamux, pvars>>

InitOtel ==
    /\ cfg \in {c \in ValidConfigs : c.UpstreamTimeout = 1 /\ c.FunctionName = Wildcard
                                      /\ c.DomainSuffix = <<"a">>}
    /\ selfName = <<>>
    /\ clients = {}
    /\ rq = NoRequest
    /\ rs = NoResult
    /\ lamux = "built"
    /\ otel \in {[NoOtel EXCEPT !.tc = tc] : tc \in TraceConfigs}
    /\ ProxyIdle

NextOtel ==
    \/ \E fault \in TraceProviderFaults : SetupOtelSDK(fault)
    \/ \E fails \in BOOLEAN : Shutdown(fails)

SpecOtel == InitOtel /\ [][NextOtel]_vars

\* ------------------------------------------------- two requests in flight
\* requests and backend results the concurrent runs are exercised with: a
\* host that resolves and one that does not; a fault, a context error and
\* two envelopes
ConcHosts == {<<"a", "a", "-", "a", ".", "a">>, <<"a", ".", "-">>}
ConcRequests == {Request(h, NoHeader, RootPath) : h \in ConcHosts}
ConcResults ==
    {Fault("notfound"), Fault("ctx"),
     Output(200, FALSE, TRUE, Envelope(200)), Output(200, FALSE, TRUE, Envelope(404))}

InitConc ==
    /\ cfg = [Port |-> 8080, FunctionName |-> Wildcard, DomainSuffix |-> <<"a">>,
              UpstreamTimeout |-> 1]
    /\ selfName = <<>>
    /\ clients = Reqs
    /\ rq = NoRequest
    /\ rs = NoResult
    /\ Started
    /\ ProxyIdle

NextConc ==
    \/ \E r \in Reqs, q \in ConcRequests : Serve(r, q)
    \/ \E r \in Reqs : Resolve(r)
    \/ \E r \in Reqs : LoopGuard(r)
    \/ \E r \in Reqs : Encode(r, TRUE)
    \/ \E r \in Reqs : InvokeCall(r)
    \/ \E r \in Reqs, res \in ConcResults : BackendReturn(r, res)
    \/ \E r \in Reqs : InvokeReturn(r)
    \/ \E r \in Reqs : Decode(r)
    \/ \E r \in Reqs : WriteResponse(r, TRUE)
    \/ \E r \in Reqs : Finish(r)
    \/ \E r \in Reqs : CancelRequest(r)
    \/ Tick

SpecConc == InitConc /\ [][NextConc]_vars

\* ---------------------------------------------------- claims: the resolver
\* the unit pattern ^[a-zA-Z0-9]+$ and the group pattern ^[a-zA-Z0-9-]+$, as
\* the specification words them
IsUnitName(s) == s # <<>> /\ \A i \in DOMAIN s : s[i] = "a"
IsGroupName(s) == s # <<>> /\ \A i \in DOMAIN s : s[i] \in {"a", "-"}

DotSuffix == <<".">> \o cfg.DomainSuffix

\* C1: fixed-group mode: for every effective host ending with the domain
\* suffix, the resolver succeeds iff the host with a trailing "."+suffix
\* removed matches the unit pattern, and then returns (configured function
\* name, that remainder); a hyphenated label is rejected.
C1_FixedGroupResolve ==
    (/\ rs # NoResult
     /\ cfg.FunctionName # Wildcard
     /\ HasSuffix(EffectiveHost(rq), cfg.DomainSuffix))
    => LET h == EffectiveHost(rq)
           rest == IF HasSuffix(h, DotSuffix)
                   THEN SubSeq(h, 1, Len(h) - Len(DotSuffix)) ELSE h
       IN /\ rs.ok <=> IsUnitName(rest)
          /\ rs.ok => rs.functionName = cfg.FunctionName /\ rs.alias = rest
          /\ (\E i \in DOMAIN rest : rest[i] = "-") => ~rs.ok

\* C1 witness: a fixed-group resolve of "aa"+"."+suffix succeeded
C1_Witness ==
    /\ cfg.FunctionName = <<"a">>
    /\ rq.XForwardedHost = NoHeader
    /\ rq.Host = <<"a", "a">> \o DotSuffix
    /\ rs.ok
    /\ rs.alias = <<"a", "a">>

Examined(r) == inv[r] # NotInvoked

\* Invoke returned an error that carries the HTTP status code
IsOutcome(r, code) ==
    /\ inv[r].err.set
    /\ inv[r].err.handler
    /\ inv[r].err.code = code

\* C3 as claimed: whenever the backend returns a target-not-found fault,
\* Invoke's outcome is NotFound (404), whatever the timing of the call
\* relative to the deadline.
C3_NotFoundWhateverTiming ==
    \A r \in Reqs :
        (Examined(r) /\ call[r].result.err = "notfound")
        => IsOutcome(r, StatusNotFound)

\* C3 as amended: whenever the backend returns a target-not-found fault and
\* the call's context is still live when Invoke examines the error, the
\* outcome is NotFound (404) for every (group, unit) pair, and 404 is the
\* status written; with the context done (deadline elapsed or request
\* canceled) the outcome is GatewayTimeout (504).
C3_NotFoundWhileContextLive ==
    \A r \in Reqs :
        (Examined(r) /\ call[r].result.err = "notfound")
        => LET code == IF ctx[r].err = "none" THEN StatusNotFound
                       ELSE StatusGatewayTimeout
           IN /\ IsOutcome(r, code)
              /\ pc[r] = "done" => w[r].status = code

\* C3 witness: a not-found fault examined with a live context was answered 404
C3_Witness ==
    \E r \in Reqs :
        /\ pc[r] = "done"
        /\ call[r].result.err = "notfound"
        /\ ctx[r].err = "none"
        /\ w[r].status = StatusNotFound

\* C4: if the backend call has not returned when the deadline derived from
\* the configured upstream timeout passes, the in-flight call is canceled and
\* Invoke's outcome is GatewayTimeout (504); that outcome is not produced
\* before the timeout has elapsed unless the request's context was canceled.
C4_UpstreamTimeout ==
    \A r \in Reqs :
        /\ (pc[r] = "inflight" /\ now >= ctx[r].start + cfg.UpstreamTimeout)
           => ctx[r].err # "none"
        /\ (Examined(r) /\ ctx[r].deadlineInFlight)
           => IsOutcome(r, StatusGatewayTimeout)
        /\ (pc[r] = "done" /\ ctx[r].deadlineInFlight)
           => w[r].status = StatusGatewayTimeout
        /\ (IsOutcome(r, StatusGatewayTimeout) /\ ~ctx[r].canceled)
           => now >= ctx[r].start + cfg.UpstreamTimeout

\* C4 witness: a call still in flight at its deadline was answered 504, the
\* request's context never canceled
C4_Witness ==
    \E r \in Reqs :
        /\ pc[r] = "done"
        /\ ctx[r].deadlineInFlight
        /\ ~ctx[r].canceled
        /\ cfg.UpstreamTimeout = MaxTimeout
        /\ w[r].status = StatusGatewayTimeout

C6_FunctionErrorIsExecutionError ==
    \A r \in Reqs :
        (/\ Examined(r)
         /\ call[r].result.err = NoFault
         /\ call[r].result.FunctionError)
        => /\ IsOutcome(r, StatusInternalServerError)
           /\ \A i \in DOMAIN stages[r] : stages[r][i] \notin {"decode", "write"}
           /\ pc[r] = "done" => w[r].status = StatusInternalServerError

\* C7: if the request's context is canceled while the invocation is in
\* flight, the cancellation reaches the backend call and the outcome is
\* GatewayTimeout (504), never a generic 500/502.
C7_CancelInFlightIsGatewayTimeout ==
    \A r \in Reqs :
        /\ (pc[r] = "inflight" /\ ctx[r].canceled) => ctx[r].err # "none"
        /\ (Examined(r) /\ ctx[r].canceledInFlight)
           => IsOutcome(r, StatusGatewayTimeout)
        /\ (pc[r] = "done" /\ ctx[r].canceledInFlight)
           => w[r].status = StatusGatewayTimeout

\* C7 witness: a request canceled with its call in flight, before the
\* deadline, was answered 504
C7_Witness ==
    \E r \in Reqs :
        /\ pc[r] = "done"
        /\ ctx[r].canceledInFlight
        /\ ctx[r].err = "canceled"
        /\ w[r].status = StatusGatewayTimeout

\* C8: when the resolved group equals AWS_LAMBDA_FUNCTION_NAME, the request
\* is answered with an internal error (500) and the backend is called zero
\* times for it.
C8_LoopGuard ==
    \A r \in Reqs :
        (target[r].ok /\ target[r].functionName = selfName)
        => /\ call[r].count = 0
           /\ pc[r] \notin {"encode", "invoke", "inflight", "returned", "decode", "write"}
           /\ pc[r] = "done" => w[r].status = StatusInternalServerError

\* C8 witness: a wildcard request for the process's own function was
\* answered 500
C8_Witness ==
    \E r \in Reqs :
        /\ pc[r] = "done"
        /\ cfg.FunctionName = Wildcard
        /\ target[r].ok
        /\ target[r].functionName = selfName
        /\ target[r].alias # selfName
        /\ w[r].status = StatusInternalServerError

\* C9: for every request, whatever the outcome, the backend is called at
\* most once.
C9_NoRetries == \A r \in Reqs : call[r].count <= 1

\* C9 witness: a request whose only call failed completed
C9_Witness ==
    \E r \in Reqs :
        /\ pc[r] = "done"
        /\ call[r].count = 1
        /\ inv[r].err.set

\* C10: when the resolver returns a validation error, the request is
\* answered 400 with the validation error text as body, and nothing is
\* encoded or invoked.
C10_ValidationErrorIs400 ==
    \A r \in Reqs :
        (target[r] # NoResult /\ ~target[r].ok)
        => /\ call[r].count = 0
           /\ stages[r] = <<"resolve">>
           /\ pc[r] \in {"finish", "done"}
           /\ pc[r] = "done" =>
                /\ w[r].status = StatusBadRequest
                /\ w[r].body = <<target[r].err, "\n">>

\* C10 witness: a host outside the domain suffix was answered 400
C10_Witness ==
    \E r \in Reqs :
        /\ pc[r] = "done"
        /\ target[r].err = ErrInvalidDomainSuffix
        /\ w[r].status = StatusBadRequest

\* the error statuses the specification enumerates
ErrorStatuses ==
    {StatusBadRequest, StatusNotFound, StatusInternalServerError,
     StatusBadGateway, StatusGatewayTimeout}

\* C11: when the invocation succeeds but the payload cannot be decoded as a
\* response envelope, the request is answered 502, never with a success
\* status and never with another error status.
C11_DecodeFailureIsBadGateway ==
    \A r \in Reqs :
        (/\ pc[r] = "done"
         /\ inv[r].ok
         /\ ~call[r].result.Payload.valid)
        => w[r].status = StatusBadGateway

\* C12: for every non-Success outcome of Invoke the status written equals
\* the code of that outcome, which is one of 404, 504, 500, 502 and is still
\* found in the error wrapHandler receives; every error status wrapHandler
\* writes is one of 400, 404, 500, 502, 504.
C12_OutcomeCodeIsWritten ==
    \A r \in Reqs :
        /\ (Examined(r) /\ ~inv[r].ok /\ ~inv[r].panic)
           => /\ inv[r].err.handler
              /\ inv[r].err.code \in ErrorStatuses \ {StatusBadRequest}
              /\ err[r] = inv[r].err
              /\ pc[r] = "done" => w[r].status = inv[r].err.code
        /\ \A i \in DOMAIN logs[r] :
              logs[r][i].msg = "request" => logs[r][i].status \in ErrorStatuses
        /\ (pc[r] = "done" /\ err[r].set /\ stages[r][Len(stages[r])] # "write")
           => w[r].status \in ErrorStatuses

\* C12 witness: a not-found fault, wrapped by Invoke, was answered 404
C12_Witness ==
    \E r \in Reqs :
        /\ pc[r] = "done"
        /\ call[r].result.err = "notfound"
        /\ inv[r].err.text = <<"failed to invoke", "notfound">>
        /\ w[r].status = StatusNotFound

\* Invoke returned Success for request r and its payload is an envelope
DecodedSuccess(r) ==
    /\ inv[r].ok
    /\ call[r].result.Payload.valid

\* C13 as claimed: on a Success outcome whose envelope decodes, the status
\* written equals the envelope's status code and handleProxy returns no
\* error.
C13_EnvelopeStatusAndNoError ==
    \A r \in Reqs :
        (pc[r] = "done" /\ DecodedSuccess(r))
        => /\ w[r].status = call[r].result.Payload.statusCode
           /\ ~err[r].set

\* C13: on a Success outcome whose envelope decodes, the status written
\* equals the envelope's status code, and handleProxy returns no error
\* unless writing the response to the client failed.
C13_EnvelopeStatusWritten ==
    \A r \in Reqs :
        (pc[r] = "done" /\ DecodedSuccess(r))
        => /\ w[r].status = call[r].result.Payload.statusCode
           /\ err[r].set => err[r].text = <<"failed to write response", "write">>

\* C13 witness: a 404 envelope was passed on as status 404 without an error
C13_Witness ==
    \E r \in Reqs :
        /\ pc[r] = "done"
        /\ DecodedSuccess(r)
        /\ call[r].result.Payload.statusCode = 404
        /\ w[r].status = 404
        /\ ~err[r].set

\* ------------------------------------------- claims: the resolver, continued
\* string h ends with string s, as the specification words the suffix test
EndsWith(h, s) == \E p \in DOMAIN h \cup {0} : h = SubSeq(h, 1, p) \o s

\* the label left of "."+suffix in h; h itself when h does not end that way
LabelOf(h) ==
    IF EndsWith(h, DotSuffix) THEN SubSeq(h, 1, Len(h) - Len(DotSuffix)) ELSE h

\* C14: for every effective host that does not end with the configured
\* domain suffix the resolver returns an error (the invalid-domain-suffix
\* one), in fixed-group mode and in wildcard mode alike.
C14_ForeignSuffixRejected ==
    (rs # NoResult /\ ~EndsWith(EffectiveHost(rq), cfg.DomainSuffix))
    => /\ ~rs.ok
       /\ rs.err = ErrInvalidDomainSuffix

\* C14 witness: in wildcard mode a well-formed label outside the suffix was
\* rejected
C14_Witness ==
    /\ cfg.FunctionName = Wildcard
    /\ cfg.DomainSuffix = <<"a", ".", "a">>
    /\ rq.XForwardedHost = NoHeader
    /\ rq.Host = <<"a", "-", "a", ".", "a", "-", "a">>
    /\ rs.err = ErrInvalidDomainSuffix

\* C15: in wildcard mode, when the label left after removing "."+suffix
\* holds no hyphen, the resolver fails and returns no pair; for a host that
\* ends with the suffix the error is the invalid-host-format one.
C15_WildcardNeedsHyphen ==
    (/\ rs # NoResult
     /\ cfg.FunctionName = Wildcard
     /\ \A i \in DOMAIN LabelOf(EffectiveHost(rq)) : LabelOf(EffectiveHost(rq))[i] # "-")
    => /\ ~rs.ok
       /\ rs.alias = <<>> /\ rs.functionName = <<>>
       /\ EndsWith(EffectiveHost(rq), cfg.DomainSuffix) => rs.err = ErrInvalidHostFormat

\* C15 witness: in wildcard mode the host "aa"+"."+suffix was rejected for
\* its format
C15_Witness ==
    /\ cfg.FunctionName = Wildcard
    /\ rq.XForwardedHost = NoHeader
    /\ rq.Host = <<"a", "a">> \o DotSuffix
    /\ rs.err = ErrInvalidHostFormat

\* the host the specification routes on, before the port is removed
ChosenHost(q) == IF q.XForwardedHost # <<>> THEN q.XForwardedHost ELSE q.Host

\* a request whose Host is h and that carries no override header
HostOnly(h) == Request(h, NoHeader, RootPath)

\* C16: the resolver's answer is the one it gives for the override header
\* alone when that header is non-empty, whatever the request's Host and
\* whether or not the header resolves, and for the Host otherwise; a host of
\* the form h:port is resolved as h.
C16_EffectiveHost ==
    rs # NoResult
    => /\ rs = ExtractAliasAndFunctionName(cfg, HostOnly(ChosenHost(rq)))
       /\ \A i \in DOMAIN ChosenHost(rq) :
             LET h == SubSeq(ChosenHost(rq), 1, i - 1)
                 port == SubSeq(ChosenHost(rq), i + 1, Len(ChosenHost(rq)))
             IN (/\ ChosenHost(rq)[i] = ":"
                 /\ \A j \in DOMAIN h : h[j] # ":"
                 /\ \A j \in DOMAIN port : port[j] # ":")
                => /\ EffectiveHost(rq) = h
                   /\ rs = ExtractAliasAndFunctionName(cfg, HostOnly(h))

\* C16 witness: an override header that fails validation was not replaced
\* by the request's Host, which would have resolved
C16_Witness ==
    /\ rq.XForwardedHost = <<"a", ".", "-">>
    /\ rq.Host = <<"a", ".", "a">>
    /\ ExtractAliasAndFunctionName(cfg, HostOnly(rq.Host)).ok
    /\ rs # NoResult
    /\ ~rs.ok

\* C17: under a configuration Validate accepts, every successful resolve
\* yields a unit matching ^[a-zA-Z0-9]+$ and a group matching
\* ^[a-zA-Z0-9-]+$, and the backend is called with no other names.
C17_TargetNamesWellFormed ==
    /\ rs.ok => IsUnitName(rs.alias) /\ IsGroupName(rs.functionName)
    /\ \A r \in Reqs :
          call[r].count > 0
          => IsUnitName(call[r].Qualifier) /\ IsGroupName(call[r].FunctionName)

\* C17 witness: a wildcard resolve returned a group holding a hyphen
C17_Witness ==
    /\ cfg.FunctionName = Wildcard
    /\ rs.ok
    /\ \E i \in DOMAIN rs.functionName : rs.functionName[i] = "-"

\* ------------------------------------------- claims: the proxy, continued
\* the stages of a request in the order the specification gives them
StageOrder == <<"resolve", "guard", "encode", "invoke", "decode", "write">>

\* stage st has run for request r
Ran(r, st) == \E i \in DOMAIN stages[r] : stages[r][i] = st

\* C18: the stages of a request run in the order resolve, loop guard,
\* encode, invoke, decode, write, each at most once; the backend is called
\* only after resolve succeeded, the loop guard passed and encoding
\* succeeded; decode and write run only after a Success outcome; once a stage
\* has failed the handler is past its stages.
C18_StagesShortCircuit ==
    \A r \in Reqs :
        /\ Len(stages[r]) <= Len(StageOrder)
        /\ stages[r] = SubSeq(StageOrder, 1, Len(stages[r]))
        /\ call[r].count > 0 <=> Ran(r, "invoke")
        /\ Ran(r, "invoke")
           => /\ target[r].ok
              /\ target[r].functionName # selfName
              /\ err[r].set => err[r].text[1] \notin
                    {"recursive call detected", "failed to convert request"}
        /\ Ran(r, "decode") => inv[r].ok
        /\ Ran(r, "write") => inv[r].ok /\ call[r].result.Payload.valid
        /\ err[r].set => pc[r] \in {"finish", "done"}
        /\ (pc[r] = "done" /\ err[r].set /\ ~inv[r].ok) => ~Ran(r, "decode")

\* C18 witness: a request whose encoding failed completed without a backend
\* call
C18_Witness ==
    \E r \in Reqs :
        /\ pc[r] = "done"
        /\ stages[r] = <<"resolve", "guard", "encode">>
        /\ err[r].text[1] = "failed to convert request"
        /\ call[r].count = 0

\* the outcomes of an invocation that carry an HTTP status
OutcomeCodes ==
    {StatusNotFound, StatusGatewayTimeout, StatusInternalServerError, StatusBadGateway}

\* C19: every invocation that was started and is no longer pending ended
\* in exactly one of Success, NotFound, GatewayTimeout, ExecutionError,
\* BadGateway, its handler was not aborted, and a completed request has a
\* response.
C19_InvocationEndsInOneOutcome ==
    \A r \in Reqs :
        (Ran(r, "invoke") /\ pc[r] \notin {"inflight", "returned"})
        => /\ pc[r] # "panic"
           /\ inv[r].ok \/ \E code \in OutcomeCodes : IsOutcome(r, code)
           /\ ~(inv[r].ok /\ inv[r].err.set)
           /\ pc[r] = "done" => w[r].status # 0

\* what the claim calls a request's result: target, outcome and response
ResultOf(r) == <<target[r], inv[r], err[r], w[r], call[r]>>

\* C20: under every interleaving of two requests, a step that is not a
\* request's own leaves its target, outcome, call and response as they were
\* and no step changes the configuration; two completed requests with the
\* same input, the same backend result and the same state of their call's
\* context have the same target, outcome and status.
C20_RequestsIndependent ==
    /\ [][/\ cfg' = cfg
          /\ \A r \in Reqs :
                pc'[r] = pc[r] => ResultOf(r)' = ResultOf(r) /\ http'[r] = http[r]]_vars
    /\ [](\A r, s \in Reqs :
             (/\ pc[r] = "done" /\ pc[s] = "done"
              /\ http[r] = http[s]
              /\ call[r].result = call[s].result
              /\ ctx[r].err = ctx[s].err)
             => /\ target[r] = target[s]
                /\ inv[r] = inv[s]
                /\ w[r] = w[s])

\* C20 witness: one request was answered 504 after its call was canceled
\* while the other request's call, started no later, is in flight and live
C20_Witness ==
    \E r, s \in Reqs :
        /\ pc[r] = "done"
        /\ ctx[r].canceledInFlight
        /\ w[r].status = StatusGatewayTimeout
        /\ pc[s] = "inflight"
        /\ ctx[s].start <= ctx[r].start
        /\ ctx[s].err = "none"

\* ------------------------------------------- claims: routing and logging
\* C21: the resolver's answer does not change when the request's method,
\* path, query, other headers or body change while Host and
\* X-Forwarded-Host stay the same: the same pair or the same validation
\* error.
C21_RoutingReadsHostOnly ==
    rs # NoResult
    => \A u \in Paths : rs = ExtractAliasAndFunctionName(cfg, [rq EXCEPT !.URL = u])

\* C21 witness: a request whose path reads like a routable host was rejected
\* for its Host
C21_Witness ==
    /\ rq.URL = <<"/", "a", "a", "-", "a", ".", "a">>
    /\ rq.XForwardedHost = NoHeader
    /\ rq.Host = <<"-">>
    /\ ExtractAliasAndFunctionName(cfg, HostOnly(SubSeq(rq.URL, 2, Len(rq.URL)))).ok
    /\ rs # NoResult
    /\ ~rs.ok

\* the level the specification gives a request's log record
LevelOf(r) == IF err[r].set THEN "error" ELSE "info"

C23_LoggedStatusIsWrittenStatus ==
    \A r \in Reqs :
        pc[r] = "done"
        => /\ logs[r][Len(logs[r])].status = w[r].status
           /\ ~err[r].set => logs[r][Len(logs[r])].status = call[r].result.Payload.statusCode

\* ------------------------------------------- claims: construction, Invoke
\* the RoutingConfig invariant with the timeout rule, as the specification
\* words them
ConfigInvariant(c) ==
    /\ c.DomainSuffix # <<>>
    /\ c.FunctionName = Wildcard \/ IsGroupName(c.FunctionName)
    /\ c.UpstreamTimeout > 0

\* C24: NewLamux returns an error and no Lamux whenever the domain suffix is
\* empty, the function name is empty or neither "*" nor a literal matching
\* ^[a-zA-Z0-9-]+$, or the timeout is not greater than 0; every Lamux that
\* handles a request has a configuration satisfying the invariant.
C24_OnlyValidConfigIsBuilt ==
    /\ (lamux # "none" /\ ~ConfigInvariant(cfg)) => lamux = "invalid config"
    /\ lamux = "built" => ConfigInvariant(cfg)
    /\ \A r \in Reqs : pc[r] # "idle" => ConfigInvariant(cfg)

\* C24 witness: a configuration whose only flaw is a zero timeout was
\* refused
C24_Witness ==
    /\ cfg.UpstreamTimeout = 0
    /\ cfg.DomainSuffix # <<>>
    /\ cfg.FunctionName = Wildcard
    /\ cfg.Port >= 0
    /\ lamux = "invalid config"

\* C25: Invoke's outcome is GatewayTimeout exactly when the backend call
\* returned an error and the call's context was done when Invoke examined
\* it: a call that returned without error is never a timeout, even if the
\* deadline passed before its result was examined, and an error returned
\* with the context live is never 504.
C25_TimeoutIffErrorAndContextDone ==
    \A r \in Reqs :
        Examined(r)
        => /\ IsOutcome(r, StatusGatewayTimeout)
                <=> (call[r].result.err # NoFault /\ ctx[r].err # "none")
           /\ (pc[r] = "done" /\ call[r].result.err = NoFault)
                => w[r].status # StatusGatewayTimeout

\* C25 witness: a result returned in time and examined after the deadline
\* was taken as Success
C25_Witness ==
    \E r \in Reqs :
        /\ call[r].result.err = NoFault
        /\ ctx[r].err = "deadline"
        /\ inv[r].ok
        /\ pc[r] = "done"
        /\ w[r].status = call[r].result.Payload.statusCode

\* C26: for every non-empty domain suffix, with or without a dot, a
\* successful resolve means the effective host is unit+"."+suffix in
\* fixed-group mode and unit+"-"+group+"."+suffix in wildcard mode.
C26_DotPrecedesSuffix ==
    rs.ok
    => EffectiveHost(rq) =
          IF cfg.FunctionName # Wildcard
          THEN rs.alias \o DotSuffix
          ELSE rs.alias \o <<"-">> \o rs.functionName \o DotSuffix

\* C27: Invoke returns Success for every backend result without transport
\* error and without function error, with or without an executed version;
\* such a result never aborts the request.
C27_SuccessWithoutExecutedVersion ==
    \A r \in Reqs :
        (/\ Examined(r)
         /\ call[r].result.err = NoFault
         /\ ~call[r].result.FunctionError)
        => /\ inv[r].ok
           /\ ~inv[r].panic
           /\ pc[r] # "panic"

\* C28: the status line is written once; when writing the decoded response
\* fails after its status was sent, the error path neither changes the
\* status nor appends an error body.
C28_NoSecondStatusNoErrorBody ==
    \A r \in Reqs :
        (pc[r] = "done" /\ Ran(r, "write") /\ err[r].set)
        => /\ w[r].status = call[r].result.Payload.statusCode
           /\ w[r].body = <<>>

\* C29: when AWS_LAMBDA_FUNCTION_NAME is unset or empty the loop guard
\* rejects nothing: a resolved group is never empty, and every request
\* whose host resolved goes on to encoding and to the backend call.
C29_NoIdentityNoRejection ==
    \A r \in Reqs :
        (selfName = <<>> /\ target[r].ok)
        => /\ target[r].functionName # <<>>
           /\ err[r].set => err[r].text # <<"recursive call detected">>
           /\ pc[r] \in {"finish", "done"} => Ran(r, "encode")
           /\ (pc[r] \in {"finish", "done"} /\ Ran(r, "encode")
               /\ err[r].text # <<"failed to convert request", "read body">>)
              => call[r].count = 1

\* C29 witness: without an identity a wildcard request was resolved and
\* its backend call made
C29_Witness ==
    \E r \in Reqs :
        /\ selfName = <<>>
        /\ cfg.FunctionName = Wildcard
        /\ target[r].ok
        /\ pc[r] = "done"
        /\ call[r].count = 1

\* ------------------------------------------------------- claims: tracing
\* how often cleanup fn was invoked
TimesRan(fn) == Cardinality({i \in DOMAIN otel.ran : otel.ran[i].fn = fn})

\* C30: over any number of calls of the shutdown function every registered
\* cleanup is invoked exactly once, by the first call, which returns the
\* errors of the cleanups joined; later calls invoke none and return no
\* error; with tracing disabled setup returns no error and every call is a
\* no-op.
C30_ShutdownRunsCleanupsOnce ==
    /\ \A i \in DOMAIN otel.registered :
          TimesRan(otel.registered[i]) = IF Len(otel.returned) >= 1 THEN 1 ELSE 0
    /\ Len(otel.ran) <= Len(otel.registered)
    /\ Len(otel.returned) >= 1
       => otel.returned[1] = {otel.ran[i].fn : i \in {j \in DOMAIN otel.ran : otel.ran[j].failed}}
    /\ \A i \in DOMAIN otel.returned : i >= 2 => otel.returned[i] = {}
    /\ (otel.state # "unset" /\ ~(otel.tc.TraceStdout \/ otel.tc.TraceEndpoint # <<>>))
       => /\ otel.state = "disabled"
          /\ otel.setupErr = {}
          /\ otel.ran = <<>>
          /\ \A i \in DOMAIN otel.returned : otel.returned[i] = {}

\* C30 witness: three calls after a successful setup; the cleanup ran once,
\* failed, and only the first call returned its error
C30_Witness ==
    /\ otel.state = "ready"
    /\ Len(otel.returned) = 3
    /\ otel.returned[1] = {"tracerProvider.Shutdown"}
    /\ otel.returned[2] = {}
    /\ TimesRan("tracerProvider.Shutdown") = 1

====
